---- MODULE Spec2Model ----
(***************************************************************************)
(* Model of src/fundamentals.py: the stock analysis dashboard.             *)
(*                                                                         *)
(* Numbers.  Python floats are modelled as fixed-point integers counted in *)
(* hundredths (25 is 2500, 1.5 is 150, 0.07 is 7).  A value that may be    *)
(* Python's None is a sequence of length at most one: None is << >> and    *)
(* the number n is <<n>>.  A dict is a function whose DOMAIN is the set of *)
(* keys present.  A float NaN in a pandas column is << >> as well.         *)
(***************************************************************************)
EXTENDS Integers, Sequences, FiniteSets, TLC

VARIABLES pc, ticker, info, hist, metrics, result, errors, calls, exc, edits

vars == <<pc, ticker, info, hist, metrics, result, errors, calls, exc, edits>>

None == << >>
Num(n) == <<n>>
IsNone(v) == Len(v) = 0
Val(v) == v[1]

\* No value returned (yet) by evaluate_stock or by the function examined.
Pending == [raised |-> "pending"]

\* No exception has been raised.
NoExc == [type |-> "none", text |-> << >>, at |-> "", state |-> "none"]

(***************************************************************************)
(* Bounds of the explored inputs.                                          *)
(***************************************************************************)
MaxMetricEdits == 2
MaxFieldEdits == 2

(***************************************************************************)
(* calculate_metrics (lines 37-68)                                         *)
(***************************************************************************)
MetricSource ==
  [ m \in { "Current Price", "52 Week High", "52 Week Low", "Market Cap (B)",
            "P/E Ratio", "Forward P/E", "PEG Ratio", "Price/Book", "Price/Sales",
            "EV/EBITDA", "Current Ratio", "Debt/Equity", "Quick Ratio",
            "Return on Equity", "Return on Assets", "Profit Margin",
            "Operating Margin", "Gross Margin", "Revenue Growth",
            "Earnings Growth", "Dividend Yield", "Payout Ratio" } |->
      CASE m = "Current Price"    -> "currentPrice"
        [] m = "52 Week High"     -> "fiftyTwoWeekHigh"
        [] m = "52 Week Low"      -> "fiftyTwoWeekLow"
        [] m = "Market Cap (B)"   -> "marketCap"
        [] m = "P/E Ratio"        -> "trailingPE"
        [] m = "Forward P/E"      -> "forwardPE"
        [] m = "PEG Ratio"        -> "pegRatio"
        [] m = "Price/Book"       -> "priceToBook"
        [] m = "Price/Sales"      -> "priceToSalesTrailing12Months"
        [] m = "EV/EBITDA"        -> "enterpriseToEbitda"
        [] m = "Current Ratio"    -> "currentRatio"
        [] m = "Debt/Equity"      -> "debtToEquity"
        [] m = "Quick Ratio"      -> "quickRatio"
        [] m = "Return on Equity" -> "returnOnEquity"
        [] m = "Return on Assets" -> "returnOnAssets"
        [] m = "Profit Margin"    -> "profitMargins"
        [] m = "Operating Margin" -> "operatingMargins"
        [] m = "Gross Margin"     -> "grossMargins"
        [] m = "Revenue Growth"   -> "revenueGrowth"
        [] m = "Earnings Growth"  -> "earningsGrowth"
        [] m = "Dividend Yield"   -> "dividendYield"
        [] m = "Payout Ratio"     -> "payoutRatio" ]

MetricNames == DOMAIN MetricSource

InfoFields == { MetricSource[m] : m \in MetricNames }

\* dict.get(key, default): the default is used only when the key is absent;
\* a key present with the value None yields None.
InfoGet(i, f, default) == IF f \in DOMAIN i THEN i[f] ELSE default

\* dict.get(key): None when the key is absent.
InfoGetOrNone(i, f) == IF f \in DOMAIN i THEN i[f] ELSE None

\* Python truthiness of an optional number: None and 0 are falsy.
Truthy(v) == ~IsNone(v) /\ Val(v) # 0

\* info.get(f, 0) if info.get(f) else 0   (lines 66-67)
GetIfTruthy(i, f) == IF Truthy(InfoGetOrNone(i, f)) THEN InfoGet(i, f, Num(0)) ELSE Num(0)

\* info.get('marketCap', 0) / 1e9 (line 44).  marketCap is counted in whole
\* dollars, the quotient in hundredths of a billion.
MarketCapB(v) == Num(Val(v) \div 10000000)

calculate_metrics(i) ==
  IF IsNone(InfoGet(i, "marketCap", Num(0)))
    THEN [raised |-> "TypeError"]
    ELSE [raised |-> "none",
          value |-> [ m \in MetricNames |->
             CASE m = "Market Cap (B)" -> MarketCapB(InfoGet(i, "marketCap", Num(0)))
               [] m \in {"Dividend Yield", "Payout Ratio"} -> GetIfTruthy(i, MetricSource[m])
               [] OTHER -> InfoGet(i, MetricSource[m], Num(0)) ]]

(***************************************************************************)
(* evaluate_stock (lines 69-122)                                           *)
(***************************************************************************)
\* metrics[k] in a comparison: KeyError when k is absent, TypeError when the
\* value is None (ordering comparison of None with a number).
Readable(m, k) == k \in DOMAIN m /\ ~IsNone(m[k])

Raise(acc, m, k) ==
  [acc EXCEPT !.raised = IF k \in DOMAIN m THEN "TypeError" ELSE "KeyError"]

\* Variant: the reason is recorded without the point.
Pass_NoIncrement(acc, text) ==
  [acc EXCEPT !.reasons = Append(@, text)]

\* score += 1; reasons.append(text)
Pass(acc, text) ==
  [acc EXCEPT !.score = @ + 1, !.reasons = Append(@, text)]

\* Variant: a concern also takes a point off the score.
Concern_Penalise(acc, text) ==
  [acc EXCEPT !.score = @ - 1, !.concerns = Append(@, text)]

\* concerns.append(text)
Concern(acc, text) ==
  [acc EXCEPT !.concerns = Append(@, text)]

\* Variant: the upper bound of the P/E reason is inclusive.
RowPE_Inclusive(acc, m) ==
  IF acc.raised # "none" THEN acc
  ELSE IF ~Readable(m, "P/E Ratio") THEN Raise(acc, m, "P/E Ratio")
  ELSE IF 0 < Val(m["P/E Ratio"]) /\ Val(m["P/E Ratio"]) <= 2500
    THEN Pass(acc, "P/E ratio is reasonable (< 25)")
  ELSE IF Val(m["P/E Ratio"]) > 3500
    THEN Concern(acc, "High P/E ratio indicates potential overvaluation")
  ELSE acc

\* lines 76-80
RowPE(acc, m) ==
  IF acc.raised # "none" THEN acc
  ELSE IF ~Readable(m, "P/E Ratio") THEN Raise(acc, m, "P/E Ratio")
  ELSE IF 0 < Val(m["P/E Ratio"]) /\ Val(m["P/E Ratio"]) < 2500
    THEN Pass(acc, "P/E ratio is reasonable (< 25)")
  ELSE IF Val(m["P/E Ratio"]) > 3500
    THEN Concern(acc, "High P/E ratio indicates potential overvaluation")
  ELSE acc

\* lines 81-83
RowPEG(acc, m) ==
  IF acc.raised # "none" THEN acc
  ELSE IF ~Readable(m, "PEG Ratio") THEN Raise(acc, m, "PEG Ratio")
  ELSE IF 0 < Val(m["PEG Ratio"]) /\ Val(m["PEG Ratio"]) < 150
    THEN Pass(acc, "PEG ratio indicates good value (< 1.5)")
  ELSE acc

\* lines 84-86
RowPB(acc, m) ==
  IF acc.raised # "none" THEN acc
  ELSE IF ~Readable(m, "Price/Book") THEN Raise(acc, m, "Price/Book")
  ELSE IF 0 < Val(m["Price/Book"]) /\ Val(m["Price/Book"]) < 300
    THEN Pass(acc, "Price/Book ratio is attractive (< 3)")
  ELSE acc

\* lines 87-89
RowEV(acc, m) ==
  IF acc.raised # "none" THEN acc
  ELSE IF ~Readable(m, "EV/EBITDA") THEN Raise(acc, m, "EV/EBITDA")
  ELSE IF 0 < Val(m["EV/EBITDA"]) /\ Val(m["EV/EBITDA"]) < 1500
    THEN Pass(acc, "EV/EBITDA indicates reasonable valuation (< 15)")
  ELSE acc

\* lines 91-95
RowCR(acc, m) ==
  IF acc.raised # "none" THEN acc
  ELSE IF ~Readable(m, "Current Ratio") THEN Raise(acc, m, "Current Ratio")
  ELSE IF Val(m["Current Ratio"]) > 150
    THEN Pass(acc, "Strong current ratio (> 1.5)")
  ELSE IF Val(m["Current Ratio"]) < 100
    THEN Concern(acc, "Low current ratio indicates potential liquidity issues")
  ELSE acc

\* Variant: the Debt/Equity reason is two-sided like the valuation rows.
RowDE_Positive(acc, m) ==
  IF acc.raised # "none" THEN acc
  ELSE IF ~Readable(m, "Debt/Equity") THEN Raise(acc, m, "Debt/Equity")
  ELSE IF 0 < Val(m["Debt/Equity"]) /\ Val(m["Debt/Equity"]) < 100
    THEN Pass(acc, "Low debt-to-equity ratio (< 1)")
  ELSE IF Val(m["Debt/Equity"]) > 200
    THEN Concern(acc, "High debt levels relative to equity")
  ELSE acc

\* lines 96-100
RowDE(acc, m) ==
  IF acc.raised # "none" THEN acc
  ELSE IF ~Readable(m, "Debt/Equity") THEN Raise(acc, m, "Debt/Equity")
  ELSE IF Val(m["Debt/Equity"]) < 100
    THEN Pass(acc, "Low debt-to-equity ratio (< 1)")
  ELSE IF Val(m["Debt/Equity"]) > 200
    THEN Concern(acc, "High debt levels relative to equity")
  ELSE acc

\* lines 102-104
RowROE(acc, m) ==
  IF acc.raised # "none" THEN acc
  ELSE IF ~Readable(m, "Return on Equity") THEN Raise(acc, m, "Return on Equity")
  ELSE IF Val(m["Return on Equity"]) > 15
    THEN Pass(acc, "Strong Return on Equity (> 15%)")
  ELSE acc

\* lines 105-107
RowROA(acc, m) ==
  IF acc.raised # "none" THEN acc
  ELSE IF ~Readable(m, "Return on Assets") THEN Raise(acc, m, "Return on Assets")
  ELSE IF Val(m["Return on Assets"]) > 7
    THEN Pass(acc, "Good Return on Assets (> 7%)")
  ELSE acc

\* lines 108-110
RowOM(acc, m) ==
  IF acc.raised # "none" THEN acc
  ELSE IF ~Readable(m, "Operating Margin") THEN Raise(acc, m, "Operating Margin")
  ELSE IF Val(m["Operating Margin"]) > 15
    THEN Pass(acc, "Healthy operating margin (> 15%)")
  ELSE acc

\* lines 112-114
RowRG(acc, m) ==
  IF acc.raised # "none" THEN acc
  ELSE IF ~Readable(m, "Revenue Growth") THEN Raise(acc, m, "Revenue Growth")
  ELSE IF Val(m["Revenue Growth"]) > 10
    THEN Pass(acc, "Strong revenue growth (> 10%)")
  ELSE acc

\* lines 115-117
RowEG(acc, m) ==
  IF acc.raised # "none" THEN acc
  ELSE IF ~Readable(m, "Earnings Growth") THEN Raise(acc, m, "Earnings Growth")
  ELSE IF Val(m["Earnings Growth"]) > 10
    THEN Pass(acc, "Strong earnings growth (> 10%)")
  ELSE acc

\* Variant: both operands of the dividend test are read before the test.
RowDiv_Eager(acc, m) ==
  IF acc.raised # "none" THEN acc
  ELSE IF ~Readable(m, "Dividend Yield") THEN Raise(acc, m, "Dividend Yield")
  ELSE IF ~Readable(m, "Payout Ratio") THEN Raise(acc, m, "Payout Ratio")
  ELSE IF Val(m["Dividend Yield"]) > 2 /\ Val(m["Payout Ratio"]) < 75
    THEN Pass(acc, "Sustainable dividend with good yield (> 2%)")
  ELSE acc

\* lines 119-121: `and` evaluates its right operand, and so reads
\* metrics['Payout Ratio'], only when the left operand is true.
RowDiv(acc, m) ==
  IF acc.raised # "none" THEN acc
  ELSE IF ~Readable(m, "Dividend Yield") THEN Raise(acc, m, "Dividend Yield")
  ELSE IF ~(Val(m["Dividend Yield"]) > 2) THEN acc
  ELSE IF ~Readable(m, "Payout Ratio") THEN Raise(acc, m, "Payout Ratio")
  ELSE IF Val(m["Payout Ratio"]) < 75
    THEN Pass(acc, "Sustainable dividend with good yield (> 2%)")
  ELSE acc

\* lines 71-74
ScoreStart == [raised |-> "none", score |-> 0, max_score |-> 12,
               reasons |-> << >>, concerns |-> << >>]

\* An exception leaves no return value: only the exception is observable.
evaluate_stock(m) ==
  LET acc == RowDiv(RowEG(RowRG(RowOM(RowROA(RowROE(RowDE(RowCR(
             RowEV(RowPB(RowPEG(RowPE(ScoreStart, m), m), m), m), m), m), m),
             m), m), m), m), m)
  IN  IF acc.raised = "none" THEN acc ELSE [raised |-> acc.raised]

(***************************************************************************)
(* calculate_technical_indicators (lines 187-205; this later definition    *)
(* replaces the one at lines 8-24).                                        *)
(*                                                                         *)
(* A column is a sequence of floats.  A float is NaN (<< >>), infinite     *)
(* (<<1, 0>>) or the rational n/d, d > 0 (<<n, d>>), counted in hundredths.*)
(* Only the Close column of the provider's frame is read by the indicator  *)
(* arithmetic, so the frame is modelled by Close and the derived columns.  *)
(***************************************************************************)
NaN == << >>
Inf == <<1, 0>>
Rat(n, d) == <<n, d>>
IsNaN(x) == Len(x) = 0
IsInf(x) == Len(x) = 2 /\ x[2] = 0

\* Sum of the numerators of x[lo..hi], by halves.
RECURSIVE SumNum(_, _, _)
SumNum(x, lo, hi) ==
  IF lo > hi THEN 0
  ELSE IF lo = hi THEN x[lo][1]
  ELSE LET mid == (lo + hi) \div 2
       IN  SumNum(x, lo, mid) + SumNum(x, mid + 1, hi)

\* Series.rolling(window=w).mean() of a column whose values all have
\* denominator 1: NaN until w observations are in the window, and NaN when
\* the window holds a NaN.
RollingMean(x, w) ==
  [ i \in 1..Len(x) |->
      IF i < w \/ (\E j \in (i - w + 1)..i : IsNaN(x[j]))
        THEN NaN
        ELSE Rat(SumNum(x, i - w + 1, i), w) ]

\* Series.diff(): the first row has no predecessor.
Diff(x) ==
  [ i \in 1..Len(x) |-> IF i = 1 THEN NaN ELSE Rat(x[i][1] - x[i - 1][1], 1) ]

\* delta.where(delta > 0, 0): a NaN fails the comparison and becomes 0.
WherePositive(x) ==
  [ i \in 1..Len(x) |-> IF ~IsNaN(x[i]) /\ x[i][1] > 0 THEN x[i] ELSE Rat(0, 1) ]

\* -delta.where(delta < 0, 0)
NegWhereNegative(x) ==
  [ i \in 1..Len(x) |-> IF ~IsNaN(x[i]) /\ x[i][1] < 0 THEN Rat(-x[i][1], 1) ELSE Rat(0, 1) ]

\* gain / loss, element by element, in IEEE arithmetic: 0/0 is NaN and a
\* positive number over 0 is infinite (no exception is raised).
FloatDiv(a, b) ==
  IF IsNaN(a) \/ IsNaN(b) THEN NaN
  ELSE IF b[1] = 0 THEN (IF a[1] = 0 THEN NaN ELSE Inf)
  ELSE Rat(a[1] * b[2], a[2] * b[1])

\* 100 - (100 / (1 + rs)), rounded to hundredths.
RsiOf(rs) ==
  IF IsNaN(rs) THEN NaN
  ELSE IF IsInf(rs) THEN Rat(10000, 1)
  ELSE Rat(10000 - ((10000 * rs[2]) \div (rs[1] + rs[2])), 1)

\* Series.ewm(span=span, adjust=False).mean(): y[1] = x[1] and
\* y[i] = (1 - a) * y[i-1] + a * x[i] with a = 2 / (span + 1), rounded to
\* hundredths at every step.
EwmStep(prev, x, span) ==
  Rat(((span - 1) * prev[1] + 2 * x[1]) \div (span + 1), 1)

\* Rows lo..hi of the mean, given the mean of row lo - 1 (by halves).
RECURSIVE EwmRows(_, _, _, _, _)
EwmRows(x, span, lo, hi, prev) ==
  IF lo = hi THEN << IF lo = 1 THEN x[1] ELSE EwmStep(prev, x[lo], span) >>
  ELSE LET mid  == (lo + hi) \div 2
           left == EwmRows(x, span, lo, mid, prev)
       IN  left \o EwmRows(x, span, mid + 1, hi, left[Len(left)])

EwmMean(x, span) == IF Len(x) = 0 THEN << >> ELSE EwmRows(x, span, 1, Len(x), NaN)

\* exp1 - exp2
Minus(a, b) == [ i \in 1..Len(a) |-> Rat(a[i][1] - b[i][1], 1) ]

\* fillna(method='bfill') on one column: a NaN takes the next valid value
\* below it; a NaN with no valid value below it stays NaN.
\* Index of the first valid value of c[lo..hi], 0 when there is none.
RECURSIVE FirstValid(_, _, _)
FirstValid(c, lo, hi) ==
  IF lo > hi THEN 0
  ELSE IF lo = hi THEN (IF IsNaN(c[lo]) THEN 0 ELSE lo)
  ELSE LET mid == (lo + hi) \div 2
           l   == FirstValid(c, lo, mid)
       IN  IF l # 0 THEN l ELSE FirstValid(c, mid + 1, hi)

Bfill(c) ==
  [ i \in 1..Len(c) |->
      LET j == FirstValid(c, i, Len(c)) IN IF j = 0 THEN NaN ELSE c[j] ]

calculate_technical_indicators(h) ==
  LET close  == h.Close
      delta  == Diff(close)
      gain   == RollingMean(WherePositive(delta), 14)
      loss   == RollingMean(NegWhereNegative(delta), 14)
      rs     == [ i \in 1..Len(close) |-> FloatDiv(gain[i], loss[i]) ]
      exp1   == EwmMean(close, 12)
      exp2   == EwmMean(close, 26)
      macd   == Minus(exp1, exp2)
  IN  [ Close  |-> Bfill(close),
        MA50   |-> Bfill(RollingMean(close, 50)),
        MA200  |-> Bfill(RollingMean(close, 200)),
        RSI    |-> Bfill([ i \in 1..Len(close) |-> RsiOf(rs[i]) ]),
        MACD   |-> Bfill(macd),
        Signal |-> Bfill(EwmMean(macd, 9)) ]

(***************************************************************************)
(* Indicator inputs: series of MinRows to MinRows + MaxExtraRows whole-     *)
(* dollar closes that rise, fall or stay level by one dollar a day, with   *)
(* one change of direction TailRows rows before the end.                   *)
(***************************************************************************)
MinRows == 200
MaxExtraRows == 2
StartClose == 50000
Slopes == {-100, 0, 100}
TailRows == {13, 14, 15, 100}

SeriesOf(n, s1, tail, s2) ==
  LET k == n - tail IN
  [ i \in 1..n |->
      Rat(StartClose + s1 * ((IF i < k THEN i ELSE k) - 1)
                     + s2 * (IF i > k THEN i - k ELSE 0), 1) ]

NoHist == [Close |-> << >>]

IndicatorInit ==
  /\ pc = "indicator_input"
  /\ \E n \in MinRows..(MinRows + MaxExtraRows), s1 \in Slopes, s2 \in Slopes,
        tail \in TailRows :
       hist = [Close |-> SeriesOf(n, s1, tail, s2)]
  /\ result = Pending
  /\ edits = 0
  /\ ticker = "" /\ metrics = << >> /\ info = << >>
  /\ errors = << >> /\ calls = << >> /\ exc = NoExc

CalculateTechnicalIndicators ==
  /\ pc = "indicator_input"
  /\ hist' = calculate_technical_indicators(hist)
  /\ pc' = "indicators_done"
  /\ UNCHANGED <<ticker, info, metrics, result, errors, calls, exc, edits>>

IndicatorNext == CalculateTechnicalIndicators

SpecIndicators == IndicatorInit /\ [][IndicatorNext]_vars

NoMissing(c) == \A i \in 1..Len(c) : ~IsNaN(c[i])

StrictlyPositive(c) == \A i \in 1..Len(c) : c[i][1] > 0

\* C8: for a series of at least 200 strictly positive closes, the MA50,
\* MA200, RSI, MACD and Signal columns have no missing value after the
\* back-fill.
C8_NoMissingAfterBackfill ==
  (pc = "indicators_done" /\ Len(hist.Close) >= MinRows /\ StrictlyPositive(hist.Close)) =>
     /\ NoMissing(hist.MA50)
     /\ NoMissing(hist.MA200)
     /\ NoMissing(hist.RSI)
     /\ NoMissing(hist.MACD)
     /\ NoMissing(hist.Signal)

(***************************************************************************)
(* Scorer inputs: the two example mappings of the specification and the    *)
(* mapping extracted from an empty profile, each altered in at most        *)
(* MaxMetricEdits places by values on either side of every threshold, by   *)
(* None, or by the removal of a key.                                       *)
(***************************************************************************)
ScoredKeys == { "P/E Ratio", "PEG Ratio", "Price/Book", "EV/EBITDA",
                "Current Ratio", "Debt/Equity", "Return on Equity",
                "Return on Assets", "Operating Margin", "Revenue Growth",
                "Earnings Growth", "Dividend Yield", "Payout Ratio" }

Probe(k) ==
  CASE k = "P/E Ratio"        -> {-100, 0, 1, 2499, 2500, 3500, 3501}
    [] k = "PEG Ratio"        -> {-1, 0, 1, 149, 150}
    [] k = "Price/Book"       -> {-1, 0, 1, 299, 300}
    [] k = "EV/EBITDA"        -> {-1, 0, 1, 1499, 1500}
    [] k = "Current Ratio"    -> {-1, 0, 99, 100, 150, 151}
    [] k = "Debt/Equity"      -> {-1, 0, 99, 100, 200, 201}
    [] k = "Return on Equity" -> {-1, 15, 16}
    [] k = "Return on Assets" -> {-1, 7, 8}
    [] k = "Operating Margin" -> {-1, 15, 16}
    [] k = "Revenue Growth"   -> {-1, 10, 11}
    [] k = "Earnings Growth"  -> {-1, 10, 11}
    [] k = "Dividend Yield"   -> {0, 2, 3}
    [] k = "Payout Ratio"     -> {-1, 74, 75}

AllZeroMetrics == calculate_metrics(<< >>).value

Example12 ==
  [ m \in MetricNames |->
      CASE m = "P/E Ratio"        -> Num(2000)
        [] m = "PEG Ratio"        -> Num(120)
        [] m = "Price/Book"       -> Num(200)
        [] m = "EV/EBITDA"        -> Num(1000)
        [] m = "Current Ratio"    -> Num(200)
        [] m = "Debt/Equity"      -> Num(50)
        [] m = "Return on Equity" -> Num(20)
        [] m = "Return on Assets" -> Num(10)
        [] m = "Operating Margin" -> Num(20)
        [] m = "Revenue Growth"   -> Num(15)
        [] m = "Earnings Growth"  -> Num(12)
        [] m = "Dividend Yield"   -> Num(3)
        [] m = "Payout Ratio"     -> Num(50)
        [] OTHER                  -> Num(0) ]

Example9 ==
  [Example12 EXCEPT !["P/E Ratio"] = Num(4000), !["Current Ratio"] = Num(80),
                    !["Debt/Equity"] = Num(250)]

ScorerInit ==
  /\ pc = "scorer_input"
  /\ metrics \in {AllZeroMetrics, Example12, Example9}
  /\ result = Pending
  /\ edits = 0
  /\ ticker = "" /\ info = << >> /\ hist = NoHist
  /\ errors = << >> /\ calls = << >> /\ exc = NoExc

SetMetric ==
  /\ pc = "scorer_input" /\ edits < MaxMetricEdits
  /\ \E k \in ScoredKeys \cap DOMAIN metrics :
       \E v \in {Num(n) : n \in Probe(k)} \cup {None} :
          metrics' = [metrics EXCEPT ![k] = v]
  /\ edits' = edits + 1
  /\ UNCHANGED <<pc, ticker, info, hist, result, errors, calls, exc>>

DropMetric ==
  /\ pc = "scorer_input" /\ edits < MaxMetricEdits
  /\ \E k \in ScoredKeys \cap DOMAIN metrics :
          metrics' = [j \in DOMAIN metrics \ {k} |-> metrics[j]]
  /\ edits' = edits + 1
  /\ UNCHANGED <<pc, ticker, info, hist, result, errors, calls, exc>>

EvaluateStock ==
  /\ pc = "scorer_input"
  /\ result' = evaluate_stock(metrics)
  /\ pc' = "scored"
  /\ UNCHANGED <<ticker, info, hist, metrics, errors, calls, exc, edits>>

ScorerNext == SetMetric \/ DropMetric \/ EvaluateStock

SpecScorer == ScorerInit /\ [][ScorerNext]_vars

Scored == pc = "scored" /\ result.raised = "none"

Complete(m) == \A k \in ScoredKeys : Readable(m, k)

(***************************************************************************)
(* Extractor inputs: the empty profile, the all-null profile and a profile *)
(* with every field a number, each altered in at most MaxFieldEdits places.*)
(***************************************************************************)
FieldProbe(f) ==
  IF f = "marketCap" THEN {None, Num(0), Num(2000000000)}
                     ELSE {None, Num(0), Num(50)}

EmptyProfile == << >>
NullProfile == [f \in InfoFields |-> None]
FullProfile == [f \in InfoFields |-> IF f = "marketCap" THEN Num(1500000000) ELSE Num(120)]

ExtractorInit ==
  /\ pc = "extractor_input"
  /\ info \in {EmptyProfile, NullProfile, FullProfile}
  /\ result = Pending
  /\ edits = 0
  /\ ticker = "" /\ metrics = << >> /\ hist = NoHist
  /\ errors = << >> /\ calls = << >> /\ exc = NoExc

SetField ==
  /\ pc = "extractor_input" /\ edits < MaxFieldEdits
  /\ \E f \in InfoFields : \E v \in FieldProbe(f) :
        info' = [g \in DOMAIN info \cup {f} |-> IF g = f THEN v ELSE info[g]]
  /\ edits' = edits + 1
  /\ UNCHANGED <<pc, ticker, metrics, hist, result, errors, calls, exc>>

DropField ==
  /\ pc = "extractor_input" /\ edits < MaxFieldEdits
  /\ \E f \in DOMAIN info : info' = [g \in DOMAIN info \ {f} |-> info[g]]
  /\ edits' = edits + 1
  /\ UNCHANGED <<pc, ticker, metrics, hist, result, errors, calls, exc>>

CalculateMetrics ==
  /\ pc = "extractor_input"
  /\ result' = calculate_metrics(info)
  /\ pc' = "extracted"
  /\ UNCHANGED <<ticker, info, metrics, hist, errors, calls, exc, edits>>

ExtractorNext == SetField \/ DropField \/ CalculateMetrics

SpecExtractor == ExtractorInit /\ [][ExtractorNext]_vars

(***************************************************************************)
(* Properties of evaluate_stock                                            *)
(***************************************************************************)
\* C1: for a mapping with every scored key present and numeric, the score is
\* an integer between 0 and 12 and max_score is exactly 12.
C1_ScoreBounded ==
  (pc = "scored" /\ Complete(metrics)) =>
     /\ result.raised = "none"
     /\ result.score \in 0..12
     /\ result.max_score = 12

C1_Witness ==
  /\ Scored /\ Complete(metrics)
  /\ result.score = 12
  /\ Val(metrics["P/E Ratio"]) = 2499

\* The threshold table of the specification, row by row, as stated there.
TableReason ==
  << "P/E ratio is reasonable (< 25)",
     "PEG ratio indicates good value (< 1.5)",
     "Price/Book ratio is attractive (< 3)",
     "EV/EBITDA indicates reasonable valuation (< 15)",
     "Strong current ratio (> 1.5)",
     "Low debt-to-equity ratio (< 1)",
     "Strong Return on Equity (> 15%)",
     "Good Return on Assets (> 7%)",
     "Healthy operating margin (> 15%)",
     "Strong revenue growth (> 10%)",
     "Strong earnings growth (> 10%)",
     "Sustainable dividend with good yield (> 2%)" >>

TableConcern ==
  << "High P/E ratio indicates potential overvaluation", "", "", "",
     "Low current ratio indicates potential liquidity issues",
     "High debt levels relative to equity", "", "", "", "", "", "" >>

TableReasonIf(i, m) ==
  LET x(k) == Val(m[k]) IN
  CASE i = 1  -> 0 < x("P/E Ratio") /\ x("P/E Ratio") < 2500
    [] i = 2  -> 0 < x("PEG Ratio") /\ x("PEG Ratio") < 150
    [] i = 3  -> 0 < x("Price/Book") /\ x("Price/Book") < 300
    [] i = 4  -> 0 < x("EV/EBITDA") /\ x("EV/EBITDA") < 1500
    [] i = 5  -> x("Current Ratio") > 150
    [] i = 6  -> x("Debt/Equity") < 100
    [] i = 7  -> x("Return on Equity") > 15
    [] i = 8  -> x("Return on Assets") > 7
    [] i = 9  -> x("Operating Margin") > 15
    [] i = 10 -> x("Revenue Growth") > 10
    [] i = 11 -> x("Earnings Growth") > 10
    [] i = 12 -> x("Dividend Yield") > 2 /\ x("Payout Ratio") < 75

TableConcernIf(i, m) ==
  LET x(k) == Val(m[k]) IN
  CASE i = 1 -> x("P/E Ratio") > 3500
    [] i = 5 -> x("Current Ratio") < 100
    [] i = 6 -> x("Debt/Equity") > 200
    [] OTHER -> FALSE

RECURSIVE TableReasons(_, _)
TableReasons(i, m) ==
  IF i = 0 THEN << >>
  ELSE IF TableReasonIf(i, m) THEN Append(TableReasons(i - 1, m), TableReason[i])
  ELSE TableReasons(i - 1, m)

RECURSIVE TableConcerns(_, _)
TableConcerns(i, m) ==
  IF i = 0 THEN << >>
  ELSE IF TableConcernIf(i, m) THEN Append(TableConcerns(i - 1, m), TableConcern[i])
  ELSE TableConcerns(i - 1, m)

\* C2: the reasons are exactly the reason texts of the table rows whose
\* "Reason if" condition holds, in row order, the score is their number, and
\* the concerns are exactly the concern texts of the rows whose "Concern if"
\* condition holds, in row order; the example with P/E = 40, Current Ratio =
\* 0.8 and Debt/Equity = 2.5 scores 9 with three concerns.
C2_ThresholdTable ==
  (pc = "scored" /\ Complete(metrics)) =>
     /\ result.raised = "none"
     /\ result.reasons = TableReasons(12, metrics)
     /\ result.concerns = TableConcerns(12, metrics)
     /\ result.score = Len(TableReasons(12, metrics))
     /\ (metrics = Example9 => result.score = 9 /\ Len(result.concerns) = 3)

C2_Witness ==
  /\ Scored /\ metrics = Example9
  /\ result.score = 9
  /\ result.concerns = << TableConcern[1], TableConcern[5], TableConcern[6] >>

\* C3 as stated: the all-zero mapping scores 0 with no reason and no concern.
C3_AllZeroScoresNothing ==
  (pc = "scored" /\ metrics = AllZeroMetrics) =>
     /\ result.raised = "none"
     /\ result.score = 0
     /\ result.reasons = << >>
     /\ result.concerns = << >>

\* C3 amended: on the all-zero mapping the value 0 passes the Debt/Equity
\* reason threshold (< 1) and triggers the Current Ratio concern threshold
\* (< 1) and nothing else: score 1, one reason, one concern.
C3_AllZeroResult ==
  (pc = "scored" /\ metrics = AllZeroMetrics) =>
     /\ result.raised = "none"
     /\ result.score = 1
     /\ result.reasons = << "Low debt-to-equity ratio (< 1)" >>
     /\ result.concerns = << "Low current ratio indicates potential liquidity issues" >>

C3_Witness ==
  /\ pc = "scored" /\ metrics = AllZeroMetrics /\ edits = 0
  /\ result.raised = "none"

\* Every key other than k is present with a number.
OnlyMissing(m, k) ==
  /\ k \notin DOMAIN m
  /\ \A j \in ScoredKeys \ {k} : Readable(m, j)

\* C9 as stated: with any one scored key absent, whatever the other values,
\* evaluate_stock fails with a lookup error.
C9_AbsentKeyRaises ==
  \A k \in ScoredKeys :
     (pc = "scored" /\ OnlyMissing(metrics, k)) => result.raised = "KeyError"

\* C9 amended: an absent key other than Payout Ratio always fails with a
\* lookup error; an absent Payout Ratio fails with a lookup error exactly
\* when Dividend Yield > 0.02, and otherwise a result is returned.
C9_AbsentKeyRaisesUnlessUnread ==
  /\ \A k \in ScoredKeys \ {"Payout Ratio"} :
       (pc = "scored" /\ OnlyMissing(metrics, k)) => result.raised = "KeyError"
  /\ (pc = "scored" /\ OnlyMissing(metrics, "Payout Ratio")) =>
       IF Val(metrics["Dividend Yield"]) > 2
         THEN result.raised = "KeyError"
         ELSE result.raised = "none"

C9_Witness ==
  /\ pc = "scored" /\ OnlyMissing(metrics, "Payout Ratio")
  /\ Val(metrics["Dividend Yield"]) = 3
  /\ result.raised = "KeyError"

\* C10: the score equals the number of reasons, no predicate group gives
\* both its reason and its concern, and reasons and concerns together have at
\* most 12 entries.
InSeq(s, x) == \E i \in 1..Len(s) : s[i] = x

C10_ScoreCountsReasons ==
  (pc = "scored" /\ Complete(metrics)) =>
     /\ result.raised = "none"
     /\ result.score = Len(result.reasons)
     /\ \A i \in {1, 5, 6} :
          ~(InSeq(result.reasons, TableReason[i]) /\ InSeq(result.concerns, TableConcern[i]))
     /\ Len(result.reasons) + Len(result.concerns) <= 12

C10_Witness ==
  /\ Scored /\ Complete(metrics)
  /\ Len(result.reasons) = 10
  /\ Len(result.concerns) = 2

(***************************************************************************)
(* Properties of calculate_metrics                                         *)
(***************************************************************************)
NullOrAbsent(i, f) == f \notin DOMAIN i \/ IsNone(i[f])

\* C4: for every profile, calculate_metrics returns a mapping with every
\* metric name, and a metric whose source field is absent or null is 0.
C4_DefaultsToZero ==
  (pc = "extracted") =>
     /\ result.raised = "none"
     /\ DOMAIN result.value = MetricNames
     /\ \A m \in MetricNames :
          NullOrAbsent(info, MetricSource[m]) => result.value[m] = Num(0)

(***************************************************************************)
(* main and get_stock_data (lines 206-250; this later get_stock_data       *)
(* replaces the one at lines 25-36).  One script run per user interaction; *)
(* a step is one statement of the two functions.  The provider's answers   *)
(* and failures are chosen freely.  Text is a sequence of parts, so that   *)
(* an f-string is the concatenation of its parts.                          *)
(***************************************************************************)
\* str.upper() on the strings a user may type.
Typed == {"aapl", "AAPL", "Zzzz"}
Upper(t) == CASE t = "aapl" -> "AAPL" [] t = "AAPL" -> "AAPL" [] t = "Zzzz" -> "ZZZZ"

\* What the provider may return or raise.
ProviderInfos ==
  { EmptyProfile, FullProfile,
    [FullProfile EXCEPT !["currentPrice"] = None],
    [FullProfile EXCEPT !["marketCap"] = None] }

ProviderHists ==
  { NoHist,
    [Close |-> << Rat(50000, 1), Rat(50100, 1), Rat(50000, 1) >>],
    [Close |-> [i \in 1..16 |-> Rat(50000, 1)]] }

ProviderErrorText == << "HTTP Error 404: Not Found" >>

\* Variant: the emptiness test is missing, as in get_stock_data at lines 25-36.
FrameEmpty_Never(h) == FALSE

\* hist.empty
FrameEmpty(h) == Len(h.Close) = 0

\* `except Exception` catches every exception class the steps raise.
Catches(clause, type) == clause = "Exception" \/ clause = type

\* Variant: main handles ValueError only.
MainTarget_ValueErrorOnly(e) == IF Catches("ValueError", e.type) THEN "main_except" ELSE "crashed"

\* Where control goes when a statement of main's try block raises e.
MainTarget(e) == IF Catches("Exception", e.type) THEN "main_except" ELSE "crashed"

\* Where control goes when a statement of get_stock_data's try block raises e.
GsdTarget(e) == IF Catches("Exception", e.type) THEN "gsd_except" ELSE MainTarget(e)

Raised(type, text, at) == [type |-> type, text |-> text, at |-> at, state |-> "raised"]

Init ==
  /\ pc = "idle"
  /\ ticker = "AAPL"
  /\ info = << >> /\ hist = NoHist /\ metrics = << >>
  /\ result = Pending
  /\ errors = << >> /\ calls = << >> /\ exc = NoExc
  /\ edits = 0

\* A script run without the button: line 230 reads the ticker, line 231 is false.
EnterTicker ==
  /\ pc \in {"idle", "done"}
  /\ \E t \in Typed : ticker' = Upper(t)
  /\ pc' = "idle"
  /\ info' = << >> /\ hist' = NoHist /\ metrics' = << >>
  /\ errors' = << >> /\ calls' = << >> /\ exc' = NoExc
  /\ UNCHANGED <<result, edits>>

\* A script run with the button pressed: lines 231-235 enter get_stock_data.
Analyze ==
  /\ pc \in {"idle", "done"}
  /\ pc' = "gsd_ticker"
  /\ info' = << >> /\ hist' = NoHist /\ metrics' = << >>
  /\ errors' = << >> /\ exc' = NoExc
  /\ calls' = << "get_stock_data" >>
  /\ UNCHANGED <<ticker, result, edits>>

\* A provider access at position at, going to next when it returns.
ProviderStep(at, step, next) ==
  /\ pc = at
  /\ calls' = Append(calls, step)
  /\ \/ /\ exc' = Raised("Exception", ProviderErrorText, step)
        /\ pc' = GsdTarget(exc')
     \/ /\ pc' = next
        /\ exc' = exc

\* line 209
YfTicker ==
  /\ ProviderStep("gsd_ticker", "yf.Ticker", "gsd_info")
  /\ UNCHANGED <<ticker, info, hist, metrics, result, errors, edits>>

\* line 210
FetchInfo ==
  /\ ProviderStep("gsd_info", "stock.info", "gsd_history")
  /\ IF pc' = "gsd_history" THEN info' \in ProviderInfos ELSE info' = info
  /\ UNCHANGED <<ticker, hist, metrics, result, errors, edits>>

\* line 212
FetchHistory ==
  /\ ProviderStep("gsd_history", "stock.history", "gsd_check")
  /\ IF pc' = "gsd_check" THEN hist' \in ProviderHists ELSE hist' = hist
  /\ UNCHANGED <<ticker, info, metrics, result, errors, edits>>

\* lines 213-214
CheckEmpty ==
  /\ pc = "gsd_check"
  /\ calls' = Append(calls, "hist.empty")
  /\ IF FrameEmpty(hist)
       THEN /\ exc' = Raised("ValueError", << "No historical data found for ", ticker >>, "hist.empty")
            /\ pc' = GsdTarget(exc')
       ELSE /\ pc' = "gsd_indicators"
            /\ exc' = exc
  /\ UNCHANGED <<ticker, info, hist, metrics, result, errors, edits>>

\* line 215; the frame library may raise (for instance on a frame without
\* the column read).
Indicators ==
  /\ pc = "gsd_indicators"
  /\ calls' = Append(calls, "calculate_technical_indicators")
  /\ \/ /\ exc' = Raised("KeyError", << "'Close'" >>, "calculate_technical_indicators")
        /\ pc' = GsdTarget(exc')
        /\ hist' = hist
     \/ /\ hist' = calculate_technical_indicators(hist)
        /\ pc' = "gsd_balance"
        /\ exc' = exc
  /\ UNCHANGED <<ticker, info, metrics, result, errors, edits>>

\* lines 217-220
FetchStatements ==
  /\ \/ ProviderStep("gsd_balance", "stock.balance_sheet", "gsd_income")
     \/ ProviderStep("gsd_income", "stock.income_stmt", "gsd_cashflow")
     \/ ProviderStep("gsd_cashflow", "stock.cash_flow", "main_metrics")
  /\ UNCHANGED <<ticker, info, hist, metrics, result, errors, edits>>

\* lines 221-223: report, then raise the same exception to the caller.
GsdExcept ==
  /\ pc = "gsd_except"
  /\ errors' = Append(errors, [by |-> "get_stock_data",
                               parts |-> << "Error fetching data for ", ticker, ": " >> \o exc.text])
  /\ pc' = MainTarget(exc)
  /\ UNCHANGED <<ticker, info, hist, metrics, result, calls, exc, edits>>

\* line 236
MainMetrics ==
  /\ pc = "main_metrics"
  /\ calls' = Append(calls, "calculate_metrics")
  /\ LET r == calculate_metrics(info) IN
       IF r.raised = "none"
         THEN /\ metrics' = r.value
              /\ pc' = "main_header"
              /\ exc' = exc
         ELSE /\ exc' = Raised(r.raised, << "unsupported operand type(s) for /: 'NoneType' and 'float'" >>,
                               "calculate_metrics")
              /\ pc' = MainTarget(exc')
              /\ metrics' = metrics
  /\ UNCHANGED <<ticker, info, hist, result, errors, edits>>

\* lines 238-241: info.get with a default cannot raise.
MainHeader ==
  /\ pc = "main_header"
  /\ calls' = Append(calls, "st.header")
  /\ pc' = "main_price"
  /\ UNCHANGED <<ticker, info, hist, metrics, result, errors, exc, edits>>

\* lines 242-244: the format specification .2f raises on None.
MainPrice ==
  /\ pc = "main_price"
  /\ calls' = Append(calls, "st.metric")
  /\ IF IsNone(metrics["Current Price"]) \/ IsNone(metrics["Market Cap (B)"])
       THEN /\ exc' = Raised("TypeError", << "unsupported format string passed to NoneType.__format__" >>,
                             "st.metric")
            /\ pc' = MainTarget(exc')
       ELSE /\ pc' = "main_plot"
            /\ exc' = exc
  /\ UNCHANGED <<ticker, info, hist, metrics, result, errors, edits>>

\* line 246, the argument: the chart library may raise.
PlotTechnicalAnalysis ==
  /\ pc = "main_plot"
  /\ calls' = Append(calls, "plot_technical_analysis")
  /\ \/ /\ exc' = Raised("ValueError", << "Invalid value" >>, "plot_technical_analysis")
        /\ pc' = MainTarget(exc')
     \/ /\ pc' = "main_chart"
        /\ exc' = exc
  /\ UNCHANGED <<ticker, info, hist, metrics, result, errors, edits>>

\* line 246, the call; the try block ends here (line 247).
PlotlyChart ==
  /\ pc = "main_chart"
  /\ calls' = Append(calls, "st.plotly_chart")
  /\ pc' = "done"
  /\ UNCHANGED <<ticker, info, hist, metrics, result, errors, exc, edits>>

\* lines 248-250
MainExcept ==
  /\ pc = "main_except"
  /\ errors' = errors \o
       << [by |-> "main", parts |-> << "Error analyzing ", ticker, ". Please try again." >>],
          [by |-> "main", parts |-> << "Error details: " >> \o exc.text] >>
  /\ exc' = [exc EXCEPT !.state = "handled"]
  /\ pc' = "done"
  /\ UNCHANGED <<ticker, info, hist, metrics, result, calls, edits>>

Next ==
  \/ EnterTicker \/ Analyze
  \/ YfTicker \/ FetchInfo \/ FetchHistory \/ CheckEmpty \/ Indicators
  \/ FetchStatements \/ GsdExcept
  \/ MainMetrics \/ MainHeader \/ MainPrice \/ PlotTechnicalAnalysis
  \/ PlotlyChart \/ MainExcept

Spec == Init /\ [][Next]_vars

(***************************************************************************)
(* Properties of a request                                                 *)
(***************************************************************************)
\* The history of this request was fetched and is empty.
HistoryEmpty ==
  /\ InSeq(calls, "stock.history")
  /\ exc.at # "stock.history"
  /\ Len(hist.Close) = 0

\* C5: in a request whose fetched history is empty, get_stock_data fails
\* with the "No historical data found" error, and none of
\* calculate_technical_indicators, calculate_metrics, evaluate_stock and
\* plot_technical_analysis runs.
C5_EmptyHistoryFailsFast ==
  HistoryEmpty =>
     /\ \A f \in {"calculate_technical_indicators", "calculate_metrics",
                  "evaluate_stock", "plot_technical_analysis"} : ~InSeq(calls, f)
     /\ result = Pending
     /\ pc # "gsd_check" =>
          /\ exc.type = "ValueError"
          /\ exc.text = << "No historical data found for ", ticker >>
          /\ exc.at = "hist.empty"

C5_Witness ==
  /\ pc = "done" /\ HistoryEmpty
  /\ exc.state = "handled" /\ exc.type = "ValueError"

\* text occurs in the parts of a message.
Contains(parts, text) ==
  \E i \in 1..(Len(parts) - Len(text) + 1) : SubSeq(parts, i, i + Len(text) - 1) = text

AcquisitionSteps ==
  { "yf.Ticker", "stock.info", "stock.history", "hist.empty",
    "calculate_technical_indicators", "stock.balance_sheet",
    "stock.income_stmt", "stock.cash_flow" }

\* C6: no exception escapes main; once a step has failed it is the last
\* step of the request and no step runs twice; a request that failed ends
\* with the exception handled and a message on the page that contains the
\* text of the error; a failure inside get_stock_data is first reported by
\* get_stock_data and then again by main.
C6_FailuresReported ==
  /\ pc # "crashed"
  /\ \A i, j \in 1..Len(calls) : calls[i] = calls[j] => i = j
  /\ exc.state # "none" => calls[Len(calls)] = exc.at
  /\ (pc = "done" /\ exc.state # "none") =>
       /\ exc.state = "handled"
       /\ \E i \in 1..Len(errors) :
            errors[i].by = "main" /\ Contains(errors[i].parts, exc.text)
       /\ exc.at \in AcquisitionSteps =>
            /\ errors[1].by = "get_stock_data"
            /\ Contains(errors[1].parts, exc.text)
            /\ Len(errors) = 3

C6_Witness ==
  /\ pc = "done" /\ exc.state = "handled"
  /\ exc.at = "calculate_metrics" /\ exc.type = "TypeError"
  /\ Len(errors) = 2

\* C7: a request that completes without error has run get_stock_data, then
\* calculate_metrics, then evaluate_stock, and holds an Evaluation Result.
C7_SuccessfulRequestScores ==
  (pc = "done" /\ exc.state = "none") =>
     /\ \E i, j, k \in 1..Len(calls) :
          /\ i < j /\ j < k
          /\ calls[i] = "get_stock_data"
          /\ calls[j] = "calculate_metrics"
          /\ calls[k] = "evaluate_stock"
     /\ result.raised = "none"

====
